---- MODULE Spec2Model ----
(***************************************************************************)
(* Model of cupsbackend.rs: the CUPS backend invocation contract.          *)
(*                                                                         *)
(* Strings are sequences of one-character strings, so that splitting,      *)
(* lowercasing and path decomposition are computed character by character  *)
(* as the code (and the std functions it calls) compute them.              *)
(* argv[k] of the source is args[k+1] here (TLA+ sequences start at 1);    *)
(* the operator Argv(a, k) keeps the source's indices.                     *)
(***************************************************************************)
EXTENDS Integers, Sequences, FiniteSets, TLC

VARIABLES
    args,           \* env::args(): the argument vector of the process, as
                    \* the Vec<String> that parse_args collects (arguments
                    \* are valid Unicode; env::args() panics on others)
    env,            \* the DEVICE_URI environment variable
    stdin,          \* what standard input will deliver
    jobFileExists,  \* whether a file exists at the caller-supplied path
    pc,             \* position of the single thread inside run()
    result,         \* what parse_args returned (tag "None" before it returns)
    data,           \* the locals of parse_args / the BackendData it returns
    tmpExists,      \* whether the NamedTempFile exists on disk
    tmpContent,     \* bytes written into the NamedTempFile
    stdinRead,      \* whether standard input has been read from
    fsLog,          \* every filesystem operation performed, in order
    stdout,         \* lines written to standard output
    stderr,         \* lines written to standard error (usage and log lines)
    hookCalls,      \* number of calls of process_data
    loggerSet,      \* whether the process-wide logger is installed
    code,           \* the ExitCode computed by run
    exitStatus      \* the status passed to exit(); -1 while running

vars == <<args, env, stdin, jobFileExists, pc, result, data, tmpExists,
          tmpContent, stdinRead, fsLog, stdout, stderr, hookCalls, loggerSet,
          code, exitStatus>>

-----------------------------------------------------------------------------
(* Bounds of the model.                                                    *)

MaxArgc == 8        \* longest argument vector of the generic family
MaxOptLen == 5      \* longest generated options string (argv[5])
MaxPathLen == 4     \* longest generated job file path (argv[6])
MaxCopiesLen == 3   \* longest generated copies string (argv[4])
MaxStdinLen == 1    \* longest standard input

-----------------------------------------------------------------------------
(* Program constants.                                                      *)

NAME == "testbackend"
DESCRIPTION == "CUPS backend in Rust"

\* u32 is held as two 16-bit limbs, value = hi * LimbBase + lo, so that the
\* 32-bit width of `copies` is kept exactly.
LimbBase == 65536

-----------------------------------------------------------------------------
(* Strings.                                                                *)

Argv(a, k) == a[k + 1]

\* All sequences over S of length at most n.
RECURSIVE SeqsUpTo(_, _)
SeqsUpTo(S, n) ==
    IF n = 0 THEN {<<>>}
    ELSE LET shorter == SeqsUpTo(S, n - 1)
         IN  shorter \cup {Append(s, c) : s \in {t \in shorter : Len(t) = n - 1}, c \in S}

\* char::to_lowercase on the characters the model uses.
ToLowerChar(c) ==
    CASE c = "A" -> "a"
      [] c = "B" -> "b"
      [] c = "T" -> "t"
      [] c = "I" -> "i"
      [] OTHER -> c

\* str::to_lowercase
to_lowercase(s) == [i \in 1..Len(s) |-> ToLowerChar(s[i])]

\* char::is_whitespace on the characters the model uses.
IsWhitespace(c) == c \in {" ", "\t", "\n"}

\* str::split_whitespace: the tokens of s in order; i is the next index to
\* look at, cur the token being collected.
RECURSIVE SplitWsFrom(_, _, _)
SplitWsFrom(s, i, cur) ==
    IF i > Len(s) THEN (IF cur = <<>> THEN <<>> ELSE <<cur>>)
    ELSE IF IsWhitespace(s[i])
         THEN (IF cur = <<>> THEN <<>> ELSE <<cur>>) \o SplitWsFrom(s, i + 1, <<>>)
         ELSE SplitWsFrom(s, i + 1, Append(cur, s[i]))

split_whitespace(s) == SplitWsFrom(s, 1, <<>>)

\* Index of the first occurrence of c in s at or after i; 0 if there is none.
RECURSIVE FindFrom(_, _, _)
FindFrom(s, c, i) ==
    IF i > Len(s) THEN 0
    ELSE IF s[i] = c THEN i
    ELSE FindFrom(s, c, i + 1)

\* opt.splitn(2, '='): first piece, and the optional second piece.
splitn2(opt) ==
    LET i == FindFrom(opt, "=", 1)
    IN  IF i = 0
        THEN [k |-> opt, hasV |-> FALSE, v |-> <<>>]
        ELSE [k |-> SubSeq(opt, 1, i - 1), hasV |-> TRUE,
              v |-> SubSeq(opt, i + 1, Len(opt))]

\* s.split('/'): the pieces between separators, empty pieces included.
RECURSIVE SplitSlashFrom(_, _, _)
SplitSlashFrom(s, i, cur) ==
    IF i > Len(s) THEN <<cur>>
    ELSE IF s[i] = "/"
         THEN <<cur>> \o SplitSlashFrom(s, i + 1, <<>>)
         ELSE SplitSlashFrom(s, i + 1, Append(cur, s[i]))

-----------------------------------------------------------------------------
(* Exit codes and errors.                                                  *)

\* enum ExitCode; `code as i32` is the position in the declaration.
ExitCodes == <<"Success", "ErrorPolicy", "AuthRequired", "HoldJob",
               "StopQueue", "CancelJob">>

\* `code as i32`
AsI32(c) == (CHOOSE i \in 1..Len(ExitCodes) : ExitCodes[i] = c) - 1

\* enum BackendError
BackendErrors == {"NoArgs", "BadArgs", "NoUri", "IOError"}

\* Variant of to_exit_code with the arms for BadArgs and the rest shifted.
to_exit_code_AllCancel(err) ==
    CASE err = "NoArgs" -> "Success"
      [] err = "BadArgs" -> "CancelJob"
      [] OTHER -> "StopQueue"

\* BackendError::to_exit_code
to_exit_code(err) ==
    CASE err = "NoArgs" -> "Success"
      [] err = "BadArgs" -> "ErrorPolicy"
      [] OTHER -> "CancelJob"

-----------------------------------------------------------------------------
(* The pieces of parse_args.                                               *)

\* Variant of ArgCountError with the first test off by one (len < 1).
ArgCountError_Off(a) ==
    IF Len(a) < 1 THEN "NoArgs"
    ELSE IF Len(a) < 6 \/ Len(a) > 7 THEN "BadArgs"
    ELSE "None"

\* The argument-count test: the error it returns, "None" when it passes.
ArgCountError(a) ==
    IF Len(a) < 2 THEN "NoArgs"
    ELSE IF Len(a) # 6 /\ Len(a) # 7 THEN "BadArgs"
    ELSE "None"

AlphaChars == {"i", "p", "h", "I"}
DigitChars == {"0", "1", "2", "3", "4", "5", "6", "7", "8", "9"}
SchemeChars == AlphaChars \cup DigitChars \cup {"+", "-", "."}

\* Url::parse without a base URL: the input must start with a scheme, an
\* ASCII letter followed by letters, digits, '+', '-' or '.', then ':'.
\* The scheme is lowercased; what follows is kept.  (Exact for inputs whose
\* scheme is not one of the special ones and that carry no port or
\* credentials, as are all inputs of DeviceUriValues.)
UrlParse(s) ==
    LET i == FindFrom(s, ":", 1)
    IN  IF /\ i > 1
           /\ s[1] \in AlphaChars
           /\ \A j \in 1..(i - 1) : s[j] \in SchemeChars
        THEN [ok |-> TRUE, scheme |-> to_lowercase(SubSeq(s, 1, i - 1)),
              rest |-> SubSeq(s, i + 1, Len(s))]
        ELSE [ok |-> FALSE, scheme |-> <<>>, rest |-> <<>>]

\* Variant of PrinterUri that falls back to an empty URI instead of failing.
PrinterUri_Lenient(e) ==
    IF e.kind = "value" /\ UrlParse(e.value).ok
    THEN UrlParse(e.value)
    ELSE [ok |-> TRUE, scheme |-> <<>>, rest |-> <<>>]

\* env::var("DEVICE_URI").ok().and_then(|uri| Url::parse(&uri).ok())
\* env::var fails when the variable is unset or is not valid Unicode.
PrinterUri(e) ==
    IF e.kind = "value"
    THEN UrlParse(e.value)
    ELSE [ok |-> FALSE, scheme |-> <<>>, rest |-> <<>>]

\* Path::components on Unix: a leading '/' is RootDir; empty pieces and "."
\* pieces are dropped, except a "." that starts a path without root, which
\* is CurDir; ".." is ParentDir; every other piece is Normal.
Components(p) ==
    LET hasRoot == Len(p) > 0 /\ p[1] = "/"
        segs == SplitSlashFrom(p, 1, <<>>)
        Comp(i) ==
            LET seg == segs[i]
            IN  IF seg = <<>> THEN <<>>
                ELSE IF seg = <<".">>
                     THEN (IF i = 1 /\ ~hasRoot
                           THEN <<[kind |-> "CurDir", name |-> seg]>>
                           ELSE <<>>)
                ELSE IF seg = <<".", ".">>
                     THEN <<[kind |-> "ParentDir", name |-> seg]>>
                ELSE <<[kind |-> "Normal", name |-> seg]>>
        RECURSIVE Collect(_)
        Collect(i) == IF i > Len(segs) THEN <<>> ELSE Comp(i) \o Collect(i + 1)
    IN  (IF hasRoot THEN <<[kind |-> "RootDir", name |-> <<"/">>]>> ELSE <<>>)
        \o Collect(1)

\* Path::file_name: the last component if it is Normal.
file_name(p) ==
    LET cs == Components(p)
    IN  IF cs # <<>> /\ cs[Len(cs)].kind = "Normal"
        THEN [some |-> TRUE, name |-> cs[Len(cs)].name]
        ELSE [some |-> FALSE, name |-> <<>>]

\* OsStr::to_string_lossy on a name taken from a String argument: the bytes
\* are valid UTF-8, which it returns unchanged.  unwrap_or_default gives
\* the empty string when there is no file name.
FileNameOrDefault(p) ==
    IF file_name(p).some THEN file_name(p).name ELSE <<>>

Untitled == <<"u", "n", "t", "i", "t", "l", "e", "d">>

\* Variant of ResolveTitle that prefers the file name to argv[3].
ResolveTitle_FileFirst(a) ==
    IF Len(a) >= 7 THEN FileNameOrDefault(Argv(a, 6))
    ELSE IF Argv(a, 3) # <<>> THEN Argv(a, 3)
    ELSE Untitled

\* The title of the request.
ResolveTitle(a) ==
    IF Argv(a, 3) # <<>> THEN Argv(a, 3)
    ELSE IF Len(a) >= 7 THEN FileNameOrDefault(Argv(a, 6))
    ELSE Untitled

DigitVal(c) ==
    CASE c = "0" -> 0 [] c = "1" -> 1 [] c = "2" -> 2 [] c = "3" -> 3
      [] c = "4" -> 4 [] c = "5" -> 5 [] c = "6" -> 6 [] c = "7" -> 7
      [] c = "8" -> 8 [] c = "9" -> 9

\* The digit loop of u32::from_str: checked_mul(10) then checked_add(digit)
\* for each character, failing on a non-digit and on overflow of 32 bits.
RECURSIVE ParseDigits(_, _, _, _)
ParseDigits(s, i, hi, lo) ==
    IF i > Len(s) THEN [ok |-> TRUE, hi |-> hi, lo |-> lo]
    ELSE IF s[i] \notin DigitChars THEN [ok |-> FALSE, hi |-> 0, lo |-> 0]
    ELSE LET lo10 == lo * 10 + DigitVal(s[i])
             hi10 == hi * 10 + (lo10 \div LimbBase)
         IN  IF hi10 >= LimbBase THEN [ok |-> FALSE, hi |-> 0, lo |-> 0]
             ELSE ParseDigits(s, i + 1, hi10, lo10 % LimbBase)

\* str::parse::<u32>: empty input, a lone sign and a '-' sign are errors; a
\* leading '+' is accepted.
ParseU32(s) ==
    IF s = <<>> THEN [ok |-> FALSE, hi |-> 0, lo |-> 0]
    ELSE IF Len(s) = 1 /\ s[1] \in {"+", "-"} THEN [ok |-> FALSE, hi |-> 0, lo |-> 0]
    ELSE IF s[1] = "+" THEN ParseDigits(s, 2, 0, 0)
    ELSE ParseDigits(s, 1, 0, 0)

\* args[4].parse::<u32>().unwrap_or(1)
ParseCopies(s) ==
    LET r == ParseU32(s)
    IN  IF r.ok THEN [hi |-> r.hi, lo |-> r.lo] ELSE [hi |-> 0, lo |-> 1]

\* HashMap::insert
MapInsert(m, k, v) == [x \in (DOMAIN m) \cup {k} |-> IF x = k THEN v ELSE m[x]]

EmptyMap == [x \in {} |-> <<>>]

OptionValue(kv) == IF kv.hasV THEN kv.v ELSE <<"t", "r", "u", "e">>

\* The loop over args[5].split_whitespace(), from token i on.
RECURSIVE InsertOptions(_, _, _)
InsertOptions(toks, i, m) ==
    IF i > Len(toks) THEN m
    ELSE LET kv == splitn2(toks[i])
         IN  InsertOptions(toks, i + 1,
                 MapInsert(m, to_lowercase(kv.k), to_lowercase(OptionValue(kv))))

\* Variant of ParseOptions that lowercases the key but not the value.
ParseOptions_KeepCase(s) ==
    LET toks == split_whitespace(s)
        RECURSIVE Ins(_, _)
        Ins(i, m) ==
            IF i > Len(toks) THEN m
            ELSE LET kv == splitn2(toks[i])
                 IN  Ins(i + 1, MapInsert(m, to_lowercase(kv.k), OptionValue(kv)))
    IN  Ins(1, EmptyMap)

\* The options mapping built from args[5].
ParseOptions(s) == InsertOptions(split_whitespace(s), 1, EmptyMap)

\* Variant of HasFileArg with the test off by one (len > 7).
HasFileArg_Off(a) == Len(a) > 7

\* args.len() >= 7: a job file path was given.
HasFileArg(a) == Len(a) >= 7

-----------------------------------------------------------------------------
(* Inputs.                                                                 *)

Prog == <<"b">>
JobId == <<"1">>
User == <<"u">>
OneCopy == <<"1">>
TmpPath == <<"/", "t", "m", "p", "/", "x">>

SmallStrings == {<<>>, <<"x">>}
OptionChars == {"a", "A", "=", " "}
PathChars == {"/", ".", "f"}
CopiesChars == {"0", "5", "+", "-", "a"}

\* Argument vectors of every length, with arbitrary small contents.
GenericArgs == UNION {[1..n -> SmallStrings] : n \in 0..MaxArgc}

OptionStrings ==
    SeqsUpTo(OptionChars, MaxOptLen)
    \cup {<<"a", "\t", "B", "=", "T">>, <<"a", "=", "1", "\n", "a", "=", "A", " ", "b">>}

PathStrings ==
    SeqsUpTo(PathChars, MaxPathLen)
    \cup {<<"/", "t", "/", "r", ".", "p", "s">>}

CopiesStrings ==
    SeqsUpTo(CopiesChars, MaxCopiesLen)
    \cup {<<"4", "2", "9", "4", "9", "6", "7", "2", "9", "5">>,
          <<"4", "2", "9", "4", "9", "6", "7", "2", "9", "6">>,
          <<"0", "4", "2", "9", "4", "9", "6", "7", "2", "9", "5">>,
          <<"9", "9", "9", "9", "9", "9", "9", "9", "9", "9", "9">>,
          <<"6", "5", "5", "3", "6">>}

\* Well-formed invocations: 6 or 7 arguments, one of title/file, copies and
\* options varied over its whole set while the others are fixed.
WithFile(a6, path) == Append(a6, path)

TitleArgs ==
    LET six == {<<Prog, JobId, User, t, OneCopy, <<>> >> : t \in {<<>>, <<"T">>}}
    IN  six \cup {WithFile(a, p) : a \in six, p \in PathStrings}

CopiesArgs ==
    LET six == {<<Prog, JobId, User, <<"T">>, c, <<>> >> : c \in CopiesStrings}
    IN  six \cup {WithFile(a, <<"f">>) : a \in six}

OptionsArgs ==
    LET six == {<<Prog, JobId, User, <<"T">>, OneCopy, o>> : o \in OptionStrings}
    IN  six \cup {WithFile(a, <<"f">>) : a \in six}

ValidUri == <<"i", "p", "p", ":", "/", "/", "h">>

DeviceUriValues ==
    {<<>>, <<"i", "p", "p">>, <<"1", ":">>, <<":", "i">>, <<"I", "+", "1", ":">>, ValidUri}

EnvStates ==
    {[kind |-> "unset", value |-> <<>>], [kind |-> "notunicode", value |-> <<>>]}
    \cup {[kind |-> "value", value |-> v] : v \in DeviceUriValues}

StdinStates ==
    [kind : {"eof", "error", "blocked"}, data : SeqsUpTo({0}, MaxStdinLen)]

-----------------------------------------------------------------------------
(* State.                                                                  *)

NoData ==
    [printer_uri |-> [ok |-> FALSE, scheme |-> <<>>, rest |-> <<>>],
     user_name |-> <<>>, title |-> <<>>, copies |-> [hi |-> 0, lo |-> 0],
     options |-> EmptyMap, job_source |-> [kind |-> "None", path |-> <<>>]]

Init ==
    /\ \/ /\ args \in GenericArgs
          /\ env \in EnvStates
          /\ stdin \in StdinStates
          /\ jobFileExists \in BOOLEAN
       \/ /\ args \in TitleArgs \cup CopiesArgs \cup OptionsArgs
          /\ env = [kind |-> "value", value |-> ValidUri]
          /\ stdin = [kind |-> "eof", data |-> <<>>]
          /\ jobFileExists = TRUE
    /\ pc = "init"
    /\ result = [tag |-> "None", detail |-> ""]
    /\ data = NoData
    /\ tmpExists = FALSE
    /\ tmpContent = <<>>
    /\ stdinRead = FALSE
    /\ fsLog = <<>>
    /\ stdout = <<>>
    /\ stderr = <<>>
    /\ hookCalls = 0
    /\ loggerSet = FALSE
    /\ code = "None"
    /\ exitStatus = -1

inputs == <<args, env, stdin, jobFileExists>>

-----------------------------------------------------------------------------
(* run(), step by step.                                                    *)

\* run: install the logger (a failure to install is ignored).
InitLogger ==
    /\ pc = "init"
    /\ loggerSet' = TRUE
    /\ pc' = "parse"
    /\ UNCHANGED <<inputs, result, data, tmpExists, tmpContent, stdinRead,
                   fsLog, stdout, stderr, hookCalls, code, exitStatus>>

\* parse_args up to the choice of the job source: the argument count, the
\* printer URI, user, title, copies and options; with a file argument it
\* returns the request, without one it goes on to create the temporary file.
ParseArgs ==
    /\ pc = "parse"
    /\ IF ArgCountError(args) # "None"
       THEN /\ result' = [tag |-> ArgCountError(args), detail |-> ""]
            /\ pc' = "dispatch"
            /\ data' = data
       ELSE IF ~PrinterUri(env).ok
       THEN /\ result' = [tag |-> "NoUri", detail |-> ""]
            /\ pc' = "dispatch"
            /\ data' = data
       ELSE /\ data' = [printer_uri |-> PrinterUri(env),
                        user_name |-> Argv(args, 2),
                        title |-> ResolveTitle(args),
                        copies |-> ParseCopies(Argv(args, 4)),
                        options |-> ParseOptions(Argv(args, 5)),
                        job_source |->
                            IF HasFileArg(args)
                            THEN [kind |-> "JobFile", path |-> Argv(args, 6)]
                            ELSE [kind |-> "None", path |-> <<>>]]
            /\ IF HasFileArg(args)
               THEN /\ result' = [tag |-> "Ok", detail |-> ""]
                    /\ pc' = "dispatch"
               ELSE /\ result' = result
                    /\ pc' = "mktemp"
    /\ UNCHANGED <<inputs, tmpExists, tmpContent, stdinRead, fsLog, stdout,
                   stderr, hookCalls, loggerSet, code, exitStatus>>

\* tempfile::NamedTempFile::new()? : the file is created, or the error is
\* returned from parse_args.
NamedTempFileNew ==
    /\ pc = "mktemp"
    /\ \E ok \in BOOLEAN :
          IF ok
          THEN /\ tmpExists' = TRUE
               /\ fsLog' = Append(fsLog, [op |-> "create", target |-> "tmp"])
               /\ pc' = "copy"
               /\ result' = result
          ELSE /\ tmpExists' = tmpExists
               /\ fsLog' = Append(fsLog, [op |-> "create_failed", target |-> "tmp"])
               /\ pc' = "dispatch"
               /\ result' = [tag |-> "IOError", detail |-> "create"]
    /\ UNCHANGED <<inputs, data, tmpContent, stdinRead, stdout, stderr,
                   hookCalls, loggerSet, code, exitStatus>>

\* io::copy: the bytes standard input delivers are written to the file.
IoCopyRead ==
    /\ pc = "copy"
    /\ stdinRead' = TRUE
    /\ tmpContent' = tmpContent \o stdin.data
    /\ fsLog' = IF stdin.data = <<>> THEN fsLog
                ELSE Append(fsLog, [op |-> "write", target |-> "tmp"])
    /\ pc' = "copy_end"
    /\ UNCHANGED <<inputs, result, data, tmpExists, stdout, stderr, hookCalls,
                   loggerSet, code, exitStatus>>

\* io::copy reaches end of input: parse_args returns the request, which
\* owns the temporary file.  (On a standard input that never ends, io::copy
\* never returns and no step is enabled.)
IoCopyEof ==
    /\ pc = "copy_end"
    /\ stdin.kind = "eof"
    /\ data' = [data EXCEPT !.job_source = [kind |-> "TempFile", path |-> TmpPath]]
    /\ result' = [tag |-> "Ok", detail |-> ""]
    /\ pc' = "dispatch"
    /\ UNCHANGED <<inputs, tmpExists, tmpContent, stdinRead, fsLog, stdout,
                   stderr, hookCalls, loggerSet, code, exitStatus>>

\* io::copy(..)? fails: parse_args returns the error, and its local `tmp`
\* is dropped, which removes the file.
IoCopyError ==
    /\ pc = "copy_end"
    /\ stdin.kind = "error"
    /\ result' = [tag |-> "IOError", detail |-> "copy"]
    /\ tmpExists' = FALSE
    /\ fsLog' = Append(fsLog, [op |-> "remove", target |-> "tmp"])
    /\ pc' = "dispatch"
    /\ UNCHANGED <<inputs, data, tmpContent, stdinRead, stdout, stderr,
                   hookCalls, loggerSet, code, exitStatus>>

InfoLine(title) ==
    [kind |-> "log", level |-> "INFO", msg |-> "Processing job: ", arg |-> title]

\* Variant of ProcessData that borrows the request, so that exit() is
\* reached with the request, and its temporary file, still alive.
ProcessData_Leak ==
    /\ pc = "dispatch"
    /\ result.tag = "Ok"
    /\ hookCalls' = hookCalls + 1
    /\ stderr' = IF loggerSet THEN Append(stderr, InfoLine(data.title)) ELSE stderr
    /\ code' = "Success"
    /\ pc' = "exit"
    /\ UNCHANGED <<inputs, result, data, tmpExists, tmpContent, stdinRead,
                   fsLog, stdout, loggerSet, exitStatus>>

\* Ok(data) => self.process_data(data): one info line; `data` is moved into
\* process_data and dropped when it returns, which removes a TempFile.
ProcessData ==
    /\ pc = "dispatch"
    /\ result.tag = "Ok"
    /\ hookCalls' = hookCalls + 1
    /\ stderr' = IF loggerSet THEN Append(stderr, InfoLine(data.title)) ELSE stderr
    /\ code' = "Success"
    /\ IF data.job_source.kind = "TempFile"
       THEN /\ tmpExists' = FALSE
            /\ fsLog' = Append(fsLog, [op |-> "remove", target |-> "tmp"])
       ELSE UNCHANGED <<tmpExists, fsLog>>
    /\ pc' = "exit"
    /\ UNCHANGED <<inputs, result, data, tmpContent, stdinRead, stdout,
                   loggerSet, exitStatus>>

AdvertiseLine == <<"direct ", NAME, ":// \"Unknown\" \"", DESCRIPTION, "\"">>

\* BackendError::NoArgs => self.advertise()
Advertise ==
    /\ pc = "dispatch"
    /\ result.tag = "NoArgs"
    /\ stdout' = Append(stdout, AdvertiseLine)
    /\ code' = to_exit_code(result.tag)
    /\ pc' = "exit"
    /\ UNCHANGED <<inputs, result, data, tmpExists, tmpContent, stdinRead,
                   fsLog, stderr, hookCalls, loggerSet, exitStatus>>

UsageLine(prog) ==
    [kind |-> "usage", level |-> "",
     msg |-> " job-id user title copies options [file]", arg |-> prog]

\* Variant of Usage that prints to standard output (println!).
Usage_Stdout ==
    /\ pc = "dispatch"
    /\ result.tag = "BadArgs"
    /\ stdout' = Append(stdout, <<"Usage: ">>)
    /\ code' = to_exit_code(result.tag)
    /\ pc' = "exit"
    /\ UNCHANGED <<inputs, result, data, tmpExists, tmpContent, stdinRead,
                   fsLog, stderr, hookCalls, loggerSet, exitStatus>>

\* BackendError::BadArgs => self.usage()
Usage ==
    /\ pc = "dispatch"
    /\ result.tag = "BadArgs"
    /\ stderr' = Append(stderr, UsageLine(Argv(args, 0)))
    /\ code' = to_exit_code(result.tag)
    /\ pc' = "exit"
    /\ UNCHANGED <<inputs, result, data, tmpExists, tmpContent, stdinRead,
                   fsLog, stdout, hookCalls, loggerSet, exitStatus>>

ErrorLine(r) ==
    [kind |-> "log", level |-> "ERROR",
     msg |-> IF r.tag = "NoUri" THEN "No printer URI" ELSE r.detail,
     arg |-> <<>>]

\* BackendError::NoUri => error!(..), BackendError::IOError(e) => error!(..)
LogError ==
    /\ pc = "dispatch"
    /\ result.tag \in {"NoUri", "IOError"}
    /\ stderr' = IF loggerSet THEN Append(stderr, ErrorLine(result)) ELSE stderr
    /\ code' = to_exit_code(result.tag)
    /\ pc' = "exit"
    /\ UNCHANGED <<inputs, result, data, tmpExists, tmpContent, stdinRead,
                   fsLog, stdout, hookCalls, loggerSet, exitStatus>>

\* exit(code as i32)
Exit ==
    /\ pc = "exit"
    /\ exitStatus' = AsI32(code)
    /\ pc' = "exited"
    /\ UNCHANGED <<inputs, result, data, tmpExists, tmpContent, stdinRead,
                   fsLog, stdout, stderr, hookCalls, loggerSet, code>>

Next ==
    \/ InitLogger
    \/ ParseArgs
    \/ NamedTempFileNew
    \/ IoCopyRead
    \/ IoCopyEof
    \/ IoCopyError
    \/ ProcessData
    \/ Advertise
    \/ Usage
    \/ LogError
    \/ Exit

Spec == Init /\ [][Next]_vars

-----------------------------------------------------------------------------
(* Properties.                                                             *)

Returned == result.tag # "None"
ReturnedOk == result.tag = "Ok"
Finished == pc \in {"exit", "exited"}

\* DEVICE_URI is set, is valid Unicode and parses as a URI.
DeviceUriValid == env.kind = "value" /\ UrlParse(env.value).ok

\* C1: the argument count is classified first: whenever parse_args has
\* returned, an argv of fewer than 2 elements gave NoArgs, and an argv of 2
\* or more elements whose length is neither 6 nor 7 gave BadArgs, whatever
\* the arguments hold and whatever DEVICE_URI is.
ArgCountClassifiedFirst ==
    Returned =>
        /\ Len(args) < 2 => result.tag = "NoArgs"
        /\ (Len(args) >= 2 /\ Len(args) \notin {6, 7}) => result.tag = "BadArgs"

\* C1 witness: an argv of 8 elements was rejected with BadArgs although
\* DEVICE_URI is valid.
ArgCountWitness ==
    /\ result.tag = "BadArgs"
    /\ Len(args) = 8
    /\ DeviceUriValid
    /\ pc = "exited"

\* C2: for an argv of 6 or 7 elements, when DEVICE_URI is absent or does not
\* parse, parse_args returns NoUri, and it does so without having touched
\* standard input or the filesystem, whatever standard input would deliver.
NoUriWhenDeviceUriBad ==
    (Returned /\ Len(args) \in {6, 7} /\ ~DeviceUriValid) =>
        /\ result.tag = "NoUri"
        /\ ~stdinRead
        /\ fsLog = <<>>

\* C2 witness: NoUri was returned for 6 arguments with a DEVICE_URI that is
\* set but unparsable, while standard input would never end.
NoUriWitness ==
    /\ result.tag = "NoUri"
    /\ Len(args) = 6
    /\ env = [kind |-> "value", value |-> <<"i", "p", "p">>]
    /\ stdin.kind = "blocked"
    /\ pc = "exited"

\* C3: the exit status is the ordinal of the mapped exit code: 0 when
\* parsing succeeded or failed with NoArgs, 1 on BadArgs, 5 on NoUri and on
\* IOError; 2, 3 and 4 are never produced, and no status is set before exit.
ExitStatusIsOrdinal ==
    /\ pc = "exited" =>
          /\ result.tag \in {"Ok", "NoArgs"} => exitStatus = 0
          /\ result.tag = "BadArgs" => exitStatus = 1
          /\ result.tag \in {"NoUri", "IOError"} => exitStatus = 5
          /\ exitStatus \in {0, 1, 5}
    /\ pc # "exited" => exitStatus = -1

\* C3 witness: the process exited with status 5 after an IOError.
ExitStatusWitness ==
    /\ pc = "exited"
    /\ result.tag = "IOError"
    /\ exitStatus = 5

\* C4 (as claimed): the title of every returned request is non-empty.
TitleNeverEmpty == ReturnedOk => data.title # <<>>

\* C5 (as claimed): copies of every returned request is at least 1, and
\* argv[4] never makes parsing fail.
CopiesAtLeastOne ==
    /\ ReturnedOk => (data.copies.hi > 0 \/ data.copies.lo > 0)
    /\ (Returned /\ Len(args) = 7 /\ DeviceUriValid) => ReturnedOk

RemovesOf(target) ==
    {i \in 1..Len(fsLog) : fsLog[i] = [op |-> "remove", target |-> target]}

\* C6: a temporary file that was created is gone once the outcome has been
\* handled (the hook has returned, or parse_args has returned IOError), so
\* no run exits with the file still there; it is removed at most once; and
\* the caller-supplied job file is never removed or otherwise changed.
SpoolRemovedOnEveryPath ==
    /\ [](/\ Finished => ~tmpExists
          /\ result.tag = "IOError" => ~tmpExists
          /\ Cardinality(RemovesOf("tmp")) <= 1
          /\ \A i \in 1..Len(fsLog) : fsLog[i].target = "tmp")
    /\ [][jobFileExists' = jobFileExists]_vars

\* C6 witness: a run that created the temporary file, handed the request to
\* the hook and exited, with the file removed.
SpoolRemovedWitness ==
    /\ pc = "exited"
    /\ ReturnedOk
    /\ data.job_source.kind = "TempFile"
    /\ fsLog = <<[op |-> "create", target |-> "tmp"],
                 [op |-> "write", target |-> "tmp"],
                 [op |-> "remove", target |-> "tmp"]>>
    /\ ~tmpExists

\* The file-name component of a path, stated on the text of the path: the
\* last piece between '/' separators that is neither empty nor ".", unless
\* that piece is ".."; the empty string when there is none.
IgnorableTail(t) ==
    \/ t = <<>>
    \/ /\ t[1] = "/"
       /\ \A k \in 1..Len(t) :
             \/ t[k] = "/"
             \/ /\ t[k] = "."
                /\ k > 1 /\ t[k - 1] = "/"
                /\ (k = Len(t) \/ t[k + 1] = "/")

FileNameSpans(p) ==
    {sp \in (1..Len(p)) \X (1..Len(p)) :
        /\ sp[1] <= sp[2]
        /\ \A k \in sp[1]..sp[2] : p[k] # "/"
        /\ SubSeq(p, sp[1], sp[2]) \notin {<<".">>, <<".", ".">>}
        /\ (sp[1] = 1 \/ p[sp[1] - 1] = "/")
        /\ IgnorableTail(SubSeq(p, sp[2] + 1, Len(p)))}

FileNameComponent(p) ==
    IF FileNameSpans(p) = {} THEN <<>>
    ELSE LET sp == CHOOSE sp \in FileNameSpans(p) : TRUE
         IN  SubSeq(p, sp[1], sp[2])

\* C7: the title of every returned request is argv[3] when argv[3] is
\* non-empty; otherwise, with a 7th argument, the file-name component of
\* argv[6] (empty when the path has none); otherwise "untitled".
TitlePriority ==
    ReturnedOk =>
        /\ Argv(args, 3) # <<>> => data.title = Argv(args, 3)
        /\ (Argv(args, 3) = <<>> /\ Len(args) = 7) =>
              /\ Cardinality(FileNameSpans(Argv(args, 6))) <= 1
              /\ data.title = FileNameComponent(Argv(args, 6))
        /\ (Argv(args, 3) = <<>> /\ Len(args) = 6) =>
              data.title = <<"u", "n", "t", "i", "t", "l", "e", "d">>

\* C7 witness: an empty argv[3] with the file "/t/r.ps" gave the title "r.ps".
TitlePriorityWitness ==
    /\ ReturnedOk
    /\ Len(args) = 7
    /\ Argv(args, 3) = <<>>
    /\ Argv(args, 6) = <<"/", "t", "/", "r", ".", "p", "s">>
    /\ data.title = <<"r", ".", "p", "s">>

\* The reference parse of an options string, stated on its text: a token is
\* a maximal run of non-whitespace characters; its key is what precedes its
\* first '=', its value what follows it, or "true".
TokenSpans(s) ==
    {sp \in (1..Len(s)) \X (1..Len(s)) :
        /\ sp[1] <= sp[2]
        /\ \A k \in sp[1]..sp[2] : ~IsWhitespace(s[k])
        /\ (sp[1] = 1 \/ IsWhitespace(s[sp[1] - 1]))
        /\ (sp[2] = Len(s) \/ IsWhitespace(s[sp[2] + 1]))}

EqualsIn(t) == {k \in 1..Len(t) : t[k] = "="}

FirstEquals(t) == CHOOSE k \in EqualsIn(t) : \A j \in EqualsIn(t) : k <= j

RefKey(t) ==
    to_lowercase(IF EqualsIn(t) = {} THEN t ELSE SubSeq(t, 1, FirstEquals(t) - 1))

RefValue(t) ==
    to_lowercase(IF EqualsIn(t) = {} THEN <<"t", "r", "u", "e">>
                 ELSE SubSeq(t, FirstEquals(t) + 1, Len(t)))

RefOptions(s) ==
    LET Tok(sp) == SubSeq(s, sp[1], sp[2])
        keys == {RefKey(Tok(sp)) : sp \in TokenSpans(s)}
        Last(k) == CHOOSE sp \in TokenSpans(s) :
                      /\ RefKey(Tok(sp)) = k
                      /\ \A other \in TokenSpans(s) :
                            RefKey(Tok(other)) = k => other[1] <= sp[1]
    IN  [k \in keys |-> RefValue(Tok(Last(k)))]

\* C8: the options mapping of every returned request equals the reference
\* parse of argv[5]: whitespace-separated non-empty tokens, split at the
\* first '=', value "true" without '=', key and value lowercased, the last
\* token of a key deciding its value.
OptionsMatchReference ==
    ReturnedOk => data.options = RefOptions(Argv(args, 5))

\* C8 witness: "a=A A" parsed to the single entry a -> "true": the second
\* token has the same lowercased key and overwrote the first.
OptionsWitness ==
    /\ ReturnedOk
    /\ Argv(args, 5) = <<"a", "=", "A", " ", "A">>
    /\ DOMAIN data.options = {<<"a">>}
    /\ data.options[<<"a">>] = <<"t", "r", "u", "e">>

\* C9: exactly one outcome action happens per run and only once the parse
\* has returned: the hook is called once, with one info line, exactly when
\* parsing succeeded; NoArgs writes the one advertisement line to standard
\* output; BadArgs writes the usage line to standard error; NoUri and
\* IOError emit one error-level log line; standard output stays empty in
\* every case but NoArgs; nothing is written before the outcome is known.
OneOutcomePerRun ==
    /\ ~Finished => (hookCalls = 0 /\ stdout = <<>> /\ stderr = <<>>)
    /\ Finished =>
          /\ hookCalls = (IF ReturnedOk THEN 1 ELSE 0)
          /\ stdout = (IF result.tag = "NoArgs"
                       THEN << <<"direct ", "testbackend", ":// \"Unknown\" \"",
                                 "CUPS backend in Rust", "\"">> >>
                       ELSE <<>>)
          /\ Len(stderr) = (IF result.tag = "NoArgs" THEN 0 ELSE 1)
          /\ ReturnedOk =>
                (stderr[1].kind = "log" /\ stderr[1].level = "INFO"
                 /\ stderr[1].arg = data.title)
          /\ result.tag = "BadArgs" => stderr[1].kind = "usage"
          /\ result.tag \in {"NoUri", "IOError"} =>
                (stderr[1].kind = "log" /\ stderr[1].level = "ERROR")

\* C9 witness: a run with a bad argument count has exited after writing the
\* usage line, and nothing else, to standard error.
OneOutcomeWitness ==
    /\ pc = "exited"
    /\ result.tag = "BadArgs"
    /\ Len(stderr) = 1
    /\ stderr[1].kind = "usage"
    /\ stdout = <<>>

\* C10: standard input is read and temporary storage is used only when argv
\* has exactly 6 elements and DEVICE_URI is valid; after NoArgs, BadArgs or
\* NoUri neither has happened; with a 7th argument the job source is that
\* path unchanged and parsing touched neither the file, standard input nor
\* temporary storage.
StdinOnlyWithoutFileArg ==
    /\ (stdinRead \/ fsLog # <<>> \/ tmpExists \/ tmpContent # <<>>) =>
          (Len(args) = 6 /\ DeviceUriValid)
    /\ result.tag \in {"NoArgs", "BadArgs", "NoUri"} =>
          (~stdinRead /\ fsLog = <<>> /\ ~tmpExists)
    /\ (Returned /\ Len(args) = 7 /\ DeviceUriValid) =>
          /\ ReturnedOk
          /\ data.job_source = [kind |-> "JobFile", path |-> Argv(args, 6)]
          /\ ~stdinRead
          /\ fsLog = <<>>

\* C10 witness: a run with a 7th argument returned a request whose job
\* source is that path, on a standard input that would never end.
FileArgWitness ==
    /\ ReturnedOk
    /\ Len(args) = 7
    /\ stdin.kind = "blocked"
    /\ data.job_source = [kind |-> "JobFile", path |-> <<"x">>]
    /\ pc = "exited"

====
